---- MODULE Spec2Model ----
(***************************************************************************)
(* Decode-and-suppress pipeline of Crowd_Count (src/unnamed/part_001):     *)
(* calculateIOU, nonMaxSuppression and parseYOLOv8Output; then the two     *)
(* screens that use it: HomeScreen.handleImagePick with BoundingBoxOverlay *)
(* (src/unnamed/part_002) and the frame processor of CameraScreen          *)
(* (src/src/screens/CameraScreen.tsx).                                     *)
(*                                                                         *)
(* Numbers.  The code computes with IEEE-754 doubles read from a           *)
(* Float32Array.  A number is modelled as a pair <<n, d>>:                 *)
(*   d > 0, gcd(|n|, d) = 1   the finite value n/d                         *)
(*   <<0, 0>>                 NaN                                          *)
(*   <<1, 0>>, <<-1, 0>>      +Infinity, -Infinity                         *)
(* Every input of the model is a dyadic rational with a small numerator    *)
(* (exact in float32), so sums, differences and products are exact in the  *)
(* code too.  Quotients are rounded by the code, but a quotient of small   *)
(* integers is compared only with thresholds it differs from by far more   *)
(* than one ulp, or equals exactly, so exact comparison agrees.            *)
(* The sign of zero is not modelled: the only divisor that can be zero is  *)
(* the union area of calculateIOU, and there a zero divisor under a        *)
(* positive intersection comes from cancellation (+0), and 0/0 is NaN for  *)
(* either sign; modelInputSize = 0 divides the positive source size.       *)
(***************************************************************************)
EXTENDS Integers, Sequences, FiniteSets, TLC

VARIABLES
    pc,               \* where the run stands, e.g. "start" | "returned" | "raised"
    outputTensor,     \* parseYOLOv8Output: the flat tensor, a sequence of numbers
    originalWidth, originalHeight,
    confidenceThreshold, iouThreshold, modelInputSize,
    boxes, confidences, classIds,   \* the candidates handed to nonMaxSuppression
    detections,       \* what parseYOLOv8Output / nonMaxSuppression returned
    error,            \* name of the error thrown, "none" when nothing was thrown
    raisedThreshold,  \* second call: a confidenceThreshold >= the first one
    raisedDetections, \* second call: its result
    nmsSelected,      \* nonMaxSuppression called on its own: what it returned
    reselected,       \* nonMaxSuppression applied to the boxes and confidences of nmsSelected
    iouBox1, iouBox2, \* calculateIOU called on its own: its two boxes
    iouResult,        \* calculateIOU(iouBox1, iouBox2)
    iouSwapped,       \* calculateIOU(iouBox2, iouBox1)
    reordering,       \* a permutation of the candidates that moves equal confidences only
    reorderedSelected, \* nonMaxSuppression called on the candidates so reordered
    modelLoaded,      \* HomeScreen: model != null
    loading, selectedImage, homeError,   \* HomeScreen state: loading, selectedImage, error
    homeCrowdCount,   \* HomeScreen state crowdCount
    homeDetections,   \* HomeScreen state detections: how many there are
    picks,            \* calls of handleImagePick made so far
    awaiting,         \* calls of handleImagePick suspended at await launchImageLibrary
    lastPath,         \* the path on which the last finished call of handleImagePick left
    modelRef,         \* CameraScreen: modelRef.current is a model
    crowdCount, liveDetections,   \* CameraScreen state
    drawnBoxes,       \* what BoundingBoxOverlay drew at the last render of CameraScreen
    jsQueue,          \* runOnJS calls not yet run on the JS thread, oldest first
    frames,           \* frames handed to the frame processor so far
    countFrame, liveFrame   \* the frames crowdCount and liveDetections come from, 0 at first

vars == <<pc, outputTensor, originalWidth, originalHeight, confidenceThreshold,
          iouThreshold, modelInputSize, boxes, confidences, classIds,
          detections, error, raisedThreshold, raisedDetections, nmsSelected,
          reselected,
          iouBox1, iouBox2, iouResult, iouSwapped,
          reordering, reorderedSelected,
          modelLoaded, loading, selectedImage, homeCrowdCount, homeDetections,
          homeError, picks, awaiting, lastPath,
          modelRef, crowdCount, liveDetections, drawnBoxes, jsQueue, frames,
          countFrame, liveFrame>>

cameraVars == <<modelRef, crowdCount, liveDetections, drawnBoxes, jsQueue, frames,
                countFrame, liveFrame>>
CameraIdle ==
    /\ modelRef = FALSE
    /\ crowdCount = 0
    /\ liveDetections = <<>>
    /\ drawnBoxes = <<>>
    /\ jsQueue = <<>>
    /\ frames = 0
    /\ countFrame = 0
    /\ liveFrame = 0

pickVars == <<modelLoaded, loading, selectedImage, homeCrowdCount, homeDetections,
              homeError, picks, awaiting, lastPath>>
PickIdle ==
    /\ modelLoaded = FALSE
    /\ loading = FALSE
    /\ selectedImage = "null"
    /\ homeCrowdCount = 0
    /\ homeDetections = 0
    /\ homeError = "null"
    /\ picks = 0
    /\ awaiting = 0
    /\ lastPath = "none"

tieVars == <<reordering, reorderedSelected>>
TieIdle ==
    /\ reordering = <<>>
    /\ reorderedSelected = <<>>

\* the variables of each part of the program, and their values while another
\* part is run
iouVars == <<iouBox1, iouBox2, iouResult, iouSwapped>>
IouIdle ==
    /\ iouBox1 = <<>>
    /\ iouBox2 = <<>>
    /\ iouResult = <<0, 0>>
    /\ iouSwapped = <<0, 0>>

----------------------------------------------------------------------------
(* Number arithmetic (JavaScript Number semantics)                          *)

NaN  == <<0, 0>>
PInf == <<1, 0>>
NInf == <<-1, 0>>

Abs(i) == IF i < 0 THEN -i ELSE i

RECURSIVE GCD(_, _)
GCD(a, b) == IF b = 0 THEN a ELSE GCD(b, a % b)

\* n/d in lowest terms, d # 0
Norm(n, d) ==
    LET s == IF d < 0 THEN -1 ELSE 1
        g == GCD(Abs(n), Abs(d))
    IN  <<(s * n) \div g, (s * d) \div g>>

Num(i) == <<i, 1>>
Frac(n, d) == Norm(n, d)

IsNaN(a)    == a = NaN
IsInf(a)    == a[2] = 0 /\ a[1] # 0
Sign(a)     == IF a[1] > 0 THEN 1 ELSE IF a[1] < 0 THEN -1 ELSE 0

Neg(a) == <<-a[1], a[2]>>

Add(a, b) ==
    IF IsNaN(a) \/ IsNaN(b) THEN NaN
    ELSE IF IsInf(a) /\ IsInf(b) THEN (IF a = b THEN a ELSE NaN)
    ELSE IF IsInf(a) THEN a
    ELSE IF IsInf(b) THEN b
    ELSE Norm(a[1] * b[2] + b[1] * a[2], a[2] * b[2])

Sub(a, b) == Add(a, Neg(b))

Mul(a, b) ==
    IF IsNaN(a) \/ IsNaN(b) THEN NaN
    ELSE IF IsInf(a) \/ IsInf(b)
         THEN (IF Sign(a) * Sign(b) = 0 THEN NaN ELSE <<Sign(a) * Sign(b), 0>>)
    ELSE Norm(a[1] * b[1], a[2] * b[2])

Div(a, b) ==
    IF IsNaN(a) \/ IsNaN(b) THEN NaN
    ELSE IF IsInf(a) THEN (IF IsInf(b) THEN NaN
                           ELSE <<Sign(a) * (IF Sign(b) < 0 THEN -1 ELSE 1), 0>>)
    ELSE IF IsInf(b) THEN Num(0)
    ELSE IF b[1] = 0 THEN (IF a[1] = 0 THEN NaN ELSE <<Sign(a), 0>>)
    ELSE Norm(a[1] * b[2], a[2] * b[1])

\* a > b; false when either is NaN
Gt(a, b) ==
    IF IsNaN(a) \/ IsNaN(b) THEN FALSE
    ELSE IF IsInf(a) \/ IsInf(b)
         THEN (IF IsInf(a) /\ IsInf(b) THEN a[1] > b[1]
               ELSE IF IsInf(a) THEN a[1] > 0
               ELSE b[1] < 0)
    ELSE a[1] * b[2] > b[1] * a[2]

\* a <= b; false when either is NaN
Le(a, b) == ~IsNaN(a) /\ ~IsNaN(b) /\ ~Gt(a, b)

\* Math.max(a, b), Math.min(a, b): NaN when either is NaN
MathMax2(a, b) == IF IsNaN(a) \/ IsNaN(b) THEN NaN ELSE IF Gt(b, a) THEN b ELSE a
MathMin2(a, b) == IF IsNaN(a) \/ IsNaN(b) THEN NaN ELSE IF Gt(a, b) THEN b ELSE a

\* Math.max(...xs): -Infinity for no arguments, NaN when an argument is NaN,
\* else the greatest of the values that occur among the arguments
MathMax(xs) ==
    LET vals == { xs[k] : k \in 1..Len(xs) }
    IN  IF vals = {} THEN NInf
        ELSE IF NaN \in vals THEN NaN
        ELSE CHOOSE m \in vals : \A v \in vals : ~Gt(v, m)

----------------------------------------------------------------------------
(* calculateIOU                                                             *)

calculateIOU(box1, box2) ==
    LET x1 == box1[1]  y1 == box1[2]  x2 == box1[3]  y2 == box1[4]
        X1 == box2[1]  Y1 == box2[2]  X2 == box2[3]  Y2 == box2[4]
        xi1 == MathMax2(x1, X1)
        yi1 == MathMax2(y1, Y1)
        xi2 == MathMin2(x2, X2)
        yi2 == MathMin2(y2, Y2)
        interArea == Mul(MathMax2(Num(0), Sub(xi2, xi1)),
                         MathMax2(Num(0), Sub(yi2, yi1)))
        box1Area == Mul(Sub(x2, x1), Sub(y2, y1))
        box2Area == Mul(Sub(X2, X1), Sub(Y2, Y1))
    IN  Div(interArea, Sub(Add(box1Area, box2Area), interArea))

----------------------------------------------------------------------------
(* nonMaxSuppression.  Indices are 0-based as in the code; a TLA+ sequence  *)
(* is indexed from 1, so element idx of an array a is a[idx + 1].           *)

\* mutant of SortCompare: the operands swapped, an ascending sort
SortCompareAscending(a, b) == Sub(a, b)

\* (a, b) => b.conf - a.conf, the comparator of the sort
SortCompare(a, b) == Sub(b, a)

\* mutant of InsertByConf: an unstable sort that puts idx before its equals
RECURSIVE InsertBeforeEquals(_, _, _)
InsertBeforeEquals(sorted, idx, confs) ==
    IF sorted = <<>> THEN <<idx>>
    ELSE IF ~Gt(Num(0), Sub(confs[idx + 1], confs[Head(sorted) + 1]))
         THEN <<idx>> \o sorted
         ELSE <<Head(sorted)>> \o InsertBeforeEquals(Tail(sorted), idx, confs)

\* Array.prototype.sort is stable: idx is placed after every element that
\* the comparator does not order after it.
RECURSIVE InsertByConf(_, _, _)
InsertByConf(sorted, idx, confs) ==
    IF sorted = <<>> THEN <<idx>>
    ELSE IF Gt(SortCompare(confs[Head(sorted) + 1], confs[idx + 1]), Num(0))
         THEN <<idx>> \o sorted
         ELSE <<Head(sorted)>> \o InsertByConf(Tail(sorted), idx, confs)

RECURSIVE SortedPrefix(_, _)
SortedPrefix(confs, n) ==
    IF n = 0 THEN <<>>
    ELSE InsertByConf(SortedPrefix(confs, n - 1), n - 1, confs)

\* mutant of SortedIndices: the sort left out
UnsortedIndices(confs) == [k \in 1..Len(confs) |-> k - 1]

\* confidences.map(...).sort(...).map(item => item.idx)
SortedIndices(confs) == SortedPrefix(confs, Len(confs))

\* if (iou > iouThreshold) suppressed[nextIdx] = true
Suppresses(iou, thr) == Gt(iou, thr)

\* the inner loop, for (let j = i + 1; ...): the set of suppressed indices
RECURSIVE InnerLoop(_, _, _, _, _, _)
InnerLoop(bs, indices, idx, j, suppressed, thr) ==
    IF j >= Len(indices) THEN suppressed
    ELSE LET nextIdx == indices[j + 1] IN
         IF nextIdx \in suppressed
         THEN InnerLoop(bs, indices, idx, j + 1, suppressed, thr)
         ELSE IF Suppresses(calculateIOU(bs[idx + 1], bs[nextIdx + 1]), thr)
              THEN InnerLoop(bs, indices, idx, j + 1, suppressed \cup {nextIdx}, thr)
              ELSE InnerLoop(bs, indices, idx, j + 1, suppressed, thr)

\* mutant of InnerStart: the inner loop starts one index late
InnerStartLate(i) == i + 2

\* the first index the inner loop looks at
InnerStart(i) == i + 1

\* mutant of OuterLoop: a suppressed candidate still suppresses the lower ones
RECURSIVE OuterLoopSuppressedSuppresses(_, _, _, _, _, _, _)
OuterLoopSuppressedSuppresses(bs, confs, indices, i, suppressed, selected, thr) ==
    IF i >= Len(indices) THEN selected
    ELSE LET idx == indices[i + 1] IN
         OuterLoopSuppressedSuppresses(bs, confs, indices, i + 1,
             InnerLoop(bs, indices, idx, i + 1, suppressed, thr),
             IF idx \in suppressed THEN selected
             ELSE Append(selected, [box |-> bs[idx + 1],
                                    confidence |-> confs[idx + 1],
                                    originalIndex |-> idx]),
             thr)

\* the outer loop, for (let i = 0; ...)
RECURSIVE OuterLoop(_, _, _, _, _, _, _)
OuterLoop(bs, confs, indices, i, suppressed, selected, thr) ==
    IF i >= Len(indices) THEN selected
    ELSE LET idx == indices[i + 1] IN
         IF idx \in suppressed
         THEN OuterLoop(bs, confs, indices, i + 1, suppressed, selected, thr)
         ELSE OuterLoop(bs, confs, indices, i + 1,
                        InnerLoop(bs, indices, idx, InnerStart(i), suppressed, thr),
                        Append(selected, [box |-> bs[idx + 1],
                                          confidence |-> confs[idx + 1],
                                          originalIndex |-> idx]),
                        thr)

nonMaxSuppression(bs, confs, thr) ==
    IF Len(bs) = 0 THEN <<>>
    ELSE OuterLoop(bs, confs, SortedIndices(confs), 0, {}, <<>>, thr)

----------------------------------------------------------------------------
(* parseYOLOv8Output                                                        *)

CLASS_LABELS == <<
    "person", "bicycle", "car", "motorcycle", "airplane", "bus", "train", "truck",
    "boat", "traffic light", "fire hydrant", "stop sign", "parking meter", "bench", "bird", "cat",
    "dog", "horse", "sheep", "cow", "elephant", "bear", "zebra", "giraffe",
    "backpack", "umbrella", "handbag", "tie", "suitcase", "frisbee", "skis", "snowboard",
    "sports ball", "kite", "baseball bat", "baseball glove", "skateboard", "surfboard", "tennis racket", "bottle",
    "wine glass", "cup", "fork", "knife", "spoon", "bowl", "banana", "apple",
    "sandwich", "orange", "broccoli", "carrot", "hot dog", "pizza", "donut", "cake",
    "chair", "couch", "potted plant", "bed", "dining table", "toilet", "tv", "laptop",
    "mouse", "remote", "keyboard", "cell phone", "microwave", "oven", "toaster", "sink",
    "refrigerator", "book", "clock", "vase", "scissors", "teddy bear", "hair drier", "toothbrush" >>

\* const numValuesPerPrediction = 84
numValuesPerPrediction == 84

\* the defaults of the parameters
DefaultConfidenceThreshold == Frac(1, 4)
DefaultIouThreshold == Frac(9, 20)
DefaultModelInputSize == 640

\* data.slice(start, end), 0-based, clamped to the length of data
Slice(data, start, end) ==
    SubSeq(data, start + 1, IF end > Len(data) THEN Len(data) ELSE end)

\* Element k (0-based) of a destructured slice.  Past the end the variable is
\* undefined, and every use of it is arithmetic, where undefined is NaN.
At(xs, k) == IF k >= 0 /\ k < Len(xs) THEN xs[k + 1] ELSE NaN

\* xs.indexOf(v): lowest 0-based index with xs[i] === v, -1 when there is none
\* (NaN is equal to nothing)
IndexOf(xs, v) ==
    IF \E k \in 1..Len(xs) : xs[k] = v /\ ~IsNaN(v)
    THEN (CHOOSE k \in 1..Len(xs) :
              xs[k] = v /\ \A j \in 1..(k - 1) : xs[j] # v) - 1
    ELSE -1

\* CLASS_LABELS[classId], "undefined" outside the table
Label(classId) ==
    IF classId >= 0 /\ classId < Len(CLASS_LABELS)
    THEN CLASS_LABELS[classId + 1] ELSE "undefined"

\* const classId = class_confs.indexOf(Math.max(...class_confs))
ClassIdOf(class_confs) == IndexOf(class_confs, MathMax(class_confs))

\* const totalConfidence = obj_conf * class_confs[classId]
TotalConfidence(obj_conf, class_confs) ==
    Mul(obj_conf, At(class_confs, ClassIdOf(class_confs)))

\* mutant of PassesFilter: >= in place of >
PassesFilterAtThreshold(totalConfidence, classId, threshold) ==
    ~Gt(threshold, totalConfidence) /\ ~IsNaN(totalConfidence)
        /\ Label(classId) = "person"

\* if (totalConfidence > confidenceThreshold && CLASS_LABELS[classId] === 'person')
PassesFilter(totalConfidence, classId, threshold) ==
    Gt(totalConfidence, threshold) /\ Label(classId) = "person"

\* the body of the if: normalized centre and size to corners in the source image
MapBox(x_center_norm, y_center_norm, w_norm, h_norm, S, W, H) ==
    LET x_center_model == Mul(x_center_norm, S)
        y_center_model == Mul(y_center_norm, S)
        w_model == Mul(w_norm, S)
        h_model == Mul(h_norm, S)
        x1_model == Sub(x_center_model, Div(w_model, Num(2)))
        y1_model == Sub(y_center_model, Div(h_model, Num(2)))
        x2_model == Add(x_center_model, Div(w_model, Num(2)))
        y2_model == Add(y_center_model, Div(h_norm, Num(2)))
        scaleX == Div(W, S)
        scaleY == Div(H, S)
    IN  <<Mul(x1_model, scaleX), Mul(y1_model, scaleY),
          Mul(x2_model, scaleX), Mul(y2_model, scaleY)>>

\* for (let i = 0; i < numPredictions; i++) with numPredictions = length / 84,
\* a fraction when the length is no multiple of 84: i < length / 84 is
\* i * 84 < length.  acc holds the arrays boxes, confidences and classIds.
RECURSIVE DecodeLoop(_, _, _, _, _, _, _)
DecodeLoop(data, i, acc, W, H, threshold, S) ==
    IF i * numValuesPerPrediction >= Len(data) THEN acc
    ELSE LET offset == i * numValuesPerPrediction
             predictionSlice == Slice(data, offset, offset + numValuesPerPrediction)
             class_confs == Slice(predictionSlice, 5, Len(predictionSlice))
             classId == ClassIdOf(class_confs)
             totalConfidence == TotalConfidence(At(predictionSlice, 4), class_confs)
         IN  IF PassesFilter(totalConfidence, classId, threshold)
             THEN DecodeLoop(data, i + 1,
                      [boxes |-> Append(acc.boxes,
                                    MapBox(At(predictionSlice, 0), At(predictionSlice, 1),
                                           At(predictionSlice, 2), At(predictionSlice, 3),
                                           S, W, H)),
                       confidences |-> Append(acc.confidences, totalConfidence),
                       classIds |-> Append(acc.classIds, classId)],
                      W, H, threshold, S)
             ELSE DecodeLoop(data, i + 1, acc, W, H, threshold, S)

Candidates(data, W, H, threshold, S) ==
    DecodeLoop(data, 0, [boxes |-> <<>>, confidences |-> <<>>, classIds |-> <<>>],
               W, H, threshold, S)

\* filteredIndices.map(item => ({box, confidence, classId: classIds[item.originalIndex]}))
FinalDetections(filteredIndices, cids) ==
    [k \in 1..Len(filteredIndices) |->
        [box |-> filteredIndices[k].box,
         confidence |-> filteredIndices[k].confidence,
         classId |-> cids[filteredIndices[k].originalIndex + 1]]]

\* The whole function.  It has no throw statement and calls nothing that
\* throws, so it always returns; the result carries the candidate arrays too.
parseYOLOv8Output(data, W, H, threshold, iouThr, S) ==
    LET c == Candidates(data, W, H, threshold, S)
    IN  [boxes |-> c.boxes, confidences |-> c.confidences, classIds |-> c.classIds,
         detections |-> FinalDetections(
                            nonMaxSuppression(c.boxes, c.confidences, iouThr),
                            c.classIds)]

----------------------------------------------------------------------------
(* Inputs of the pipeline                                                   *)

MaxPred == 3

\* one prediction: 4 box values, objectness, 80 class scores of which only
\* 'person' (class 0) and 'bicycle' (class 1) are non-zero
Prediction(xc, yc, w, h, obj, person, bicycle) ==
    <<xc, yc, w, h, obj, person, bicycle>>
        \o [k \in 1..(numValuesPerPrediction - 7) |-> Num(0)]

\* Three boxes in a row, the middle one overlapping each neighbour (IOU 3/5)
\* and the neighbours overlapping less (IOU 1/3); the middle one scores
\* lowest.  Then a box of negative width, a prediction whose best class is
\* 'bicycle', and one of zero height whose confidence is the default threshold.
Predictions ==
    { Prediction(Frac(1, 4), Frac(1, 2), Frac(1, 4), Frac(1, 2), Num(1), Num(1), Num(0)),
      Prediction(Frac(3, 8), Frac(1, 2), Frac(1, 4), Frac(1, 2), Num(1), Frac(3, 4), Num(0)),
      Prediction(Frac(5, 16), Frac(1, 2), Frac(1, 4), Frac(1, 2), Num(1), Frac(1, 2), Frac(1, 2)),
      Prediction(Frac(1, 2), Frac(1, 2), Frac(-1, 4), Frac(1, 4), Num(1), Num(1), Num(0)),
      Prediction(Frac(1, 4), Frac(1, 2), Frac(1, 4), Frac(1, 2), Num(1), Frac(1, 2), Num(1)),
      Prediction(Frac(1, 4), Frac(1, 4), Frac(1, 2), Num(0), Frac(1, 2), Frac(1, 2), Num(0)) }

\* what may follow the last whole prediction: nothing, or a partial slice
Tails ==
    { <<>>,
      <<Frac(1, 2), Frac(1, 2)>>,
      <<Frac(1, 2), Frac(1, 2), Frac(1, 4), Frac(1, 4), Num(1), Num(1)>> }

RECURSIVE Flatten(_)
Flatten(ps) == IF ps = <<>> THEN <<>> ELSE Head(ps) \o Flatten(Tail(ps))

\* <<originalWidth, originalHeight, confidenceThreshold, iouThreshold, modelInputSize>>
DefaultConfig ==
    <<Num(1280), Num(960), DefaultConfidenceThreshold, DefaultIouThreshold,
      Num(DefaultModelInputSize)>>

Configs ==
    { DefaultConfig,
      <<Num(1280), Num(960), Frac(1, 2), DefaultIouThreshold, Num(DefaultModelInputSize)>>,
      <<Num(640), Num(640), Frac(3, 4), Frac(1, 4), Num(DefaultModelInputSize)>>,
      <<Num(1280), Num(960), Frac(3, 2), DefaultIouThreshold, Num(DefaultModelInputSize)>>,
      <<Num(1280), Num(960), DefaultConfidenceThreshold, Frac(-1, 4), Num(DefaultModelInputSize)>>,
      <<Num(1280), Num(960), DefaultConfidenceThreshold, DefaultIouThreshold, Num(0)>> }

Thresholds == { c[3] : c \in Configs }

----------------------------------------------------------------------------
(* The pipeline as a state machine: one call of parseYOLOv8Output, then a   *)
(* second call on the same input with a threshold at least as high.         *)

\* A partial slice is tried with the default configuration only.
Init ==
    /\ pc = "start"
    /\ \E n \in 0..MaxPred : \E ps \in [1..n -> Predictions] :
       \E t \in Tails : \E c \in Configs :
          /\ t = <<>> \/ c = DefaultConfig
          /\ outputTensor = Flatten(ps) \o t
          /\ originalWidth = c[1]
          /\ originalHeight = c[2]
          /\ confidenceThreshold = c[3]
          /\ iouThreshold = c[4]
          /\ modelInputSize = c[5]
          /\ raisedThreshold = c[3]
    /\ boxes = <<>>
    /\ confidences = <<>>
    /\ classIds = <<>>
    /\ detections = <<>>
    /\ error = "none"
    /\ raisedDetections = <<>>
    /\ nmsSelected = <<>>
    /\ reselected = <<>>
    /\ CameraIdle
    /\ PickIdle
    /\ TieIdle
    /\ IouIdle

Parse ==
    /\ pc = "start"
    /\ LET r == parseYOLOv8Output(outputTensor, originalWidth, originalHeight,
                                  confidenceThreshold, iouThreshold, modelInputSize)
       IN  /\ boxes' = r.boxes
           /\ confidences' = r.confidences
           /\ classIds' = r.classIds
           /\ detections' = r.detections
    /\ pc' = "returned"
    /\ UNCHANGED <<outputTensor, originalWidth, originalHeight, confidenceThreshold,
                   iouThreshold, modelInputSize, error, raisedThreshold,
                   raisedDetections, nmsSelected, reselected, iouVars, tieVars, pickVars, cameraVars>>

ParseRaised ==
    /\ pc = "returned"
    /\ \E t \in Thresholds :
          /\ Le(confidenceThreshold, t)
          /\ raisedThreshold' = t
          /\ raisedDetections' =
                parseYOLOv8Output(outputTensor, originalWidth, originalHeight,
                                  t, iouThreshold, modelInputSize).detections
    /\ pc' = "raised"
    /\ UNCHANGED <<outputTensor, originalWidth, originalHeight, confidenceThreshold,
                   iouThreshold, modelInputSize, boxes, confidences, classIds,
                   detections, error, nmsSelected, reselected, iouVars, tieVars, pickVars, cameraVars>>

Next == Parse \/ ParseRaised

Spec == Init /\ [][Next]_vars

----------------------------------------------------------------------------
(* nonMaxSuppression on its own: one call on a list of boxes and            *)
(* confidences, then a call on the boxes and confidences it returned.       *)

MaxBoxes == 3

\* boxes [x1, 0, x2, 1] on a line, among them one whose corners are swapped
\* (the mapper emits such a box for w_norm < 0)
NmsBoxes ==
    { <<Num(0), Num(0), Num(2), Num(1)>>,
      <<Num(1), Num(0), Num(3), Num(1)>>,
      <<Num(2), Num(0), Num(4), Num(1)>>,
      <<Num(0), Num(0), Num(4), Num(1)>>,
      <<Num(3), Num(0), Num(1), Num(1)>> }

NmsConfidences == { Frac(1, 2), Frac(3, 4), Frac(9, 10) }

NmsThresholds == { Frac(1, 4), DefaultIouThreshold }

\* the scenarios of the specification: two heavily overlapping boxes (IOU
\* 81/100), given in either order, and two disjoint boxes
NmsScenarios ==
    { [boxes |-> <<<<Num(0), Num(0), Num(100), Num(100)>>, <<Num(5), Num(5), Num(95), Num(95)>>>>,
       confidences |-> <<Frac(9, 10), Frac(3, 5)>>],
      [boxes |-> <<<<Num(5), Num(5), Num(95), Num(95)>>, <<Num(0), Num(0), Num(100), Num(100)>>>>,
       confidences |-> <<Frac(3, 5), Frac(9, 10)>>],
      [boxes |-> <<<<Num(0), Num(0), Num(50), Num(50)>>, <<Num(200), Num(200), Num(250), Num(250)>>>>,
       confidences |-> <<Frac(3, 5), Frac(9, 10)>>] }

InitNMS ==
    /\ pc = "nms"
    /\ \/ /\ \E n \in 0..MaxBoxes :
                /\ boxes \in [1..n -> NmsBoxes]
                /\ confidences \in [1..n -> NmsConfidences]
          /\ iouThreshold \in NmsThresholds
       \/ /\ \E s \in NmsScenarios :
                /\ boxes = s.boxes
                /\ confidences = s.confidences
          /\ iouThreshold = DefaultIouThreshold
    /\ outputTensor = <<>>
    /\ originalWidth = DefaultConfig[1]
    /\ originalHeight = DefaultConfig[2]
    /\ confidenceThreshold = DefaultConfig[3]
    /\ modelInputSize = DefaultConfig[5]
    /\ classIds = <<>>
    /\ detections = <<>>
    /\ error = "none"
    /\ raisedThreshold = DefaultConfig[3]
    /\ raisedDetections = <<>>
    /\ nmsSelected = <<>>
    /\ reselected = <<>>
    /\ CameraIdle
    /\ PickIdle
    /\ TieIdle
    /\ IouIdle

BoxesOf(sel) == [k \in 1..Len(sel) |-> sel[k].box]
ConfidencesOf(sel) == [k \in 1..Len(sel) |-> sel[k].confidence]

Select ==
    /\ pc = "nms"
    /\ nmsSelected' = nonMaxSuppression(boxes, confidences, iouThreshold)
    /\ pc' = "selected"
    /\ UNCHANGED <<outputTensor, originalWidth, originalHeight, confidenceThreshold,
                   iouThreshold, modelInputSize, boxes, confidences, classIds,
                   detections, error, raisedThreshold, raisedDetections, reselected, iouVars, tieVars, pickVars, cameraVars>>

Reselect ==
    /\ pc = "selected"
    /\ reselected' = nonMaxSuppression(BoxesOf(nmsSelected), ConfidencesOf(nmsSelected),
                                       iouThreshold)
    /\ pc' = "reselected"
    /\ UNCHANGED <<outputTensor, originalWidth, originalHeight, confidenceThreshold,
                   iouThreshold, modelInputSize, boxes, confidences, classIds,
                   detections, error, raisedThreshold, raisedDetections, nmsSelected, iouVars, tieVars, pickVars, cameraVars>>

NextNMS == Select \/ Reselect

SpecNMS == InitNMS /\ [][NextNMS]_vars

----------------------------------------------------------------------------
(* Properties                                                               *)

\* The slices the decoder cuts the tensor into, the last one possibly partial
SliceCount ==
    (Len(outputTensor) + numValuesPerPrediction - 1) \div numValuesPerPrediction

\* value k (1-based) of slice i (0-based), undefined (NaN in arithmetic) past
\* the end of the tensor
Field(i, k) ==
    IF i * numValuesPerPrediction + k <= Len(outputTensor)
    THEN outputTensor[i * numValuesPerPrediction + k] ELSE NaN

\* the number of class scores slice i holds, and score c (class c - 1) of it
ClassCount(i) ==
    IF (i + 1) * numValuesPerPrediction <= Len(outputTensor)
    THEN numValuesPerPrediction - 5
    ELSE IF Len(outputTensor) - i * numValuesPerPrediction > 5
         THEN Len(outputTensor) - i * numValuesPerPrediction - 5
         ELSE 0

ClassScore(i, c) == Field(i, 5 + c)

\* objectness * max(classScores) > threshold, and 'person' (class 0) is the
\* argmax with ties going to the lowest index: no score exceeds the person score
Qualifies(i, threshold) ==
    /\ ClassCount(i) > 0
    /\ Gt(Mul(Field(i, 5), ClassScore(i, 1)), threshold)
    /\ \A c \in 1..ClassCount(i) : Le(ClassScore(i, c), ClassScore(i, 1))

QualifyingSlices(threshold) ==
    SelectSeq([k \in 1..SliceCount |-> k - 1], LAMBDA i : Qualifies(i, threshold))

\* the box of section 4.3, every corner from its own half-dimension in pixels
SpecifiedBox(i) ==
    LET S  == modelInputSize
        xc == Mul(Field(i, 1), S)
        yc == Mul(Field(i, 2), S)
        hw == Div(Mul(Field(i, 3), S), Num(2))
        hh == Div(Mul(Field(i, 4), S), Num(2))
        sx == Div(originalWidth, S)
        sy == Div(originalHeight, S)
    IN  <<Mul(Sub(xc, hw), sx), Mul(Sub(yc, hh), sy),
          Mul(Add(xc, hw), sx), Mul(Add(yc, hh), sy)>>

Degenerate(i) ==
    \/ Le(Mul(Field(i, 3), modelInputSize), Num(0))
    \/ Le(Mul(Field(i, 4), modelInputSize), Num(0))

InUnitInterval(x) == Le(Num(0), x) /\ Le(x, Num(1))

ValidConfiguration ==
    /\ InUnitInterval(confidenceThreshold)
    /\ InUnitInterval(iouThreshold)
    /\ Gt(modelInputSize, Num(0))

Parsed == pc \in {"returned", "raised"}

\* C1: every candidate that passes the filter is emitted with the box
\* [(xc*S - w*S/2)*W/S, (yc*S - h*S/2)*H/S, (xc*S + w*S/2)*W/S, (yc*S + h*S/2)*H/S],
\* y2 from the half-height in pixels.
C1_EmittedBoxIsSpecified ==
    Parsed =>
        LET q == QualifyingSlices(confidenceThreshold)
        IN  boxes = [k \in 1..Len(q) |-> SpecifiedBox(q[k])]

\* C2: every returned Detection has x1 <= x2 and y1 <= y2.
C2_CornersOrdered ==
    Parsed =>
        \A k \in 1..Len(detections) :
            /\ Le(detections[k].box[1], detections[k].box[3])
            /\ Le(detections[k].box[2], detections[k].box[4])

\* C3: a candidate of zero or negative pixel width or height is dropped: the
\* candidates handed to nonMaxSuppression are the qualifying slices of
\* positive width and height.
C3_DegenerateDropped ==
    Parsed =>
        Len(boxes) = Len(SelectSeq(QualifyingSlices(confidenceThreshold),
                                   LAMBDA i : ~Degenerate(i)))

\* C4: a tensor whose length is no multiple of 84 makes the call fail with
\* MalformedTensor, returning nothing and decoding no partial slice.
C4_MalformedTensorFails ==
    (Parsed /\ Len(outputTensor) % numValuesPerPrediction # 0) =>
        /\ error = "MalformedTensor"
        /\ detections = <<>>
        /\ Len(boxes) <= Len(outputTensor) \div numValuesPerPrediction

\* C5: a threshold outside [0,1] or modelInputSize <= 0 makes the call fail
\* with InvalidConfiguration before any tensor work, returning nothing.
C5_InvalidConfigurationFails ==
    (Parsed /\ ~ValidConfiguration) =>
        /\ error = "InvalidConfiguration"
        /\ boxes = <<>>
        /\ detections = <<>>

\* C6: a candidate is kept exactly when objectness * max(classScores) >
\* confidenceThreshold and the argmax class (lowest index on ties) is
\* 'person'; so every returned Detection has confidence > confidenceThreshold
\* and the class 'person', and a confidence equal to the threshold is dropped.
C6_FilterExact ==
    Parsed =>
        /\ LET q == QualifyingSlices(confidenceThreshold)
           IN  confidences = [k \in 1..Len(q) |->
                                 Mul(Field(q[k], 5), ClassScore(q[k], 1))]
        /\ \A k \in 1..Len(classIds) : CLASS_LABELS[classIds[k] + 1] = "person"
        /\ \A k \in 1..Len(detections) :
               /\ Gt(detections[k].confidence, confidenceThreshold)
               /\ CLASS_LABELS[detections[k].classId + 1] = "person"

\* a tie between 'person' and another class is kept, a slice whose confidence
\* equals the threshold and a slice of another class are dropped
C6_Witness ==
    /\ pc = "returned"
    /\ Len(detections) >= 1
    /\ \E i \in 0..(SliceCount - 1) :
          Qualifies(i, confidenceThreshold) /\ ClassScore(i, 2) = ClassScore(i, 1)
    /\ \E i \in 0..(SliceCount - 1) :
          Mul(Field(i, 5), ClassScore(i, 1)) = confidenceThreshold
    /\ \E i \in 0..(SliceCount - 1) :
          Gt(ClassScore(i, 2), ClassScore(i, 1))

\* C8: with everything else fixed, a confidenceThreshold at least as high
\* returns no more detections.
C8_ThresholdMonotone ==
    pc = "raised" => Len(raisedDetections) <= Len(detections)

\* the threshold is strictly raised past a candidate of the first call, which
\* had suppressed one of its three candidates, and detections remain
C8_Witness ==
    /\ pc = "raised"
    /\ Gt(raisedThreshold, confidenceThreshold)
    /\ Len(boxes) = 3
    /\ Len(detections) = 2
    /\ \E k \in 1..Len(confidences) : Le(confidences[k], raisedThreshold)
    /\ Len(raisedDetections) >= 1

Suppressed == pc \in {"selected", "reselected"}

\* C7: no two distinct detections of the list nonMaxSuppression returns have
\* an IOU strictly greater than iouThreshold.
C7_NoOverlapLeft ==
    Suppressed =>
        \A a, b \in 1..Len(nmsSelected) :
            a # b => ~Gt(calculateIOU(nmsSelected[a].box, nmsSelected[b].box),
                         iouThreshold)

\* three candidates of which one was suppressed and two are left
C7_Witness ==
    /\ pc = "selected"
    /\ Len(boxes) = 3
    /\ Len(nmsSelected) = 2
    /\ \E a, b \in 1..3 : Gt(calculateIOU(boxes[a], boxes[b]), iouThreshold) /\ a # b

\* C9: nonMaxSuppression applied to the boxes and confidences of its own
\* output returns the same boxes with the same confidences in the same order.
C9_Idempotent ==
    pc = "reselected" =>
        /\ BoxesOf(reselected) = BoxesOf(nmsSelected)
        /\ ConfidencesOf(reselected) = ConfidencesOf(nmsSelected)

\* the first call suppressed a candidate and left two different boxes of
\* equal confidence
C9_Witness ==
    /\ pc = "reselected"
    /\ Len(nmsSelected) < Len(boxes)
    /\ \E a, b \in 1..Len(nmsSelected) :
          /\ a # b
          /\ nmsSelected[a].confidence = nmsSelected[b].confidence
          /\ nmsSelected[a].box # nmsSelected[b].box

\* C10: the list nonMaxSuppression returns is in non-increasing confidence.
C10_DescendingConfidence ==
    Suppressed =>
        \A k \in 1..(Len(nmsSelected) - 1) :
            Le(nmsSelected[k + 1].confidence, nmsSelected[k].confidence)

\* three candidates given in ascending confidence all survive
C10_Witness ==
    /\ pc = "selected"
    /\ Len(nmsSelected) = 3
    /\ Gt(confidences[2], confidences[1])
    /\ Gt(confidences[3], confidences[2])

----------------------------------------------------------------------------
(* calculateIOU on its own: one call on a pair of boxes, then the call      *)
(* with the boxes swapped.                                                  *)

\* corners on a small grid: boxes of positive area, of zero width or height,
\* and boxes whose corners are swapped
IouXs == { Num(0), Num(1), Num(2) }
IouYs == { Num(0), Num(1) }
IouBoxes == { <<x1, y1, x2, y2>> : x1 \in IouXs, y1 \in IouYs, x2 \in IouXs, y2 \in IouYs }

InitIOU ==
    /\ pc = "iou"
    /\ iouBox1 \in IouBoxes
    /\ iouBox2 \in IouBoxes
    /\ iouResult = NaN
    /\ iouSwapped = NaN
    /\ outputTensor = <<>>
    /\ originalWidth = DefaultConfig[1]
    /\ originalHeight = DefaultConfig[2]
    /\ confidenceThreshold = DefaultConfig[3]
    /\ iouThreshold = DefaultConfig[4]
    /\ modelInputSize = DefaultConfig[5]
    /\ boxes = <<>>
    /\ confidences = <<>>
    /\ classIds = <<>>
    /\ detections = <<>>
    /\ error = "none"
    /\ raisedThreshold = DefaultConfig[3]
    /\ raisedDetections = <<>>
    /\ nmsSelected = <<>>
    /\ reselected = <<>>
    /\ CameraIdle
    /\ PickIdle
    /\ TieIdle

pipelineVars ==
    <<outputTensor, originalWidth, originalHeight, confidenceThreshold,
      iouThreshold, modelInputSize, boxes, confidences, classIds, detections,
      error, raisedThreshold, raisedDetections, nmsSelected, reselected>>

CalculateIOU ==
    /\ pc = "iou"
    /\ iouResult' = calculateIOU(iouBox1, iouBox2)
    /\ pc' = "iou_done"
    /\ UNCHANGED <<pipelineVars, iouBox1, iouBox2, iouSwapped, tieVars, pickVars, cameraVars>>

CalculateIOUSwapped ==
    /\ pc = "iou_done"
    /\ iouSwapped' = calculateIOU(iouBox2, iouBox1)
    /\ pc' = "iou_both"
    /\ UNCHANGED <<pipelineVars, iouBox1, iouBox2, iouResult, tieVars, pickVars, cameraVars>>

NextIOU == CalculateIOU \/ CalculateIOUSwapped

SpecIOU == InitIOU /\ [][NextIOU]_vars

\* (x2 - x1) * (y2 - y1)
AreaOf(box) == Mul(Sub(box[3], box[1]), Sub(box[4], box[2]))

\* a === b on numbers: NaN is equal to nothing, itself included
NumEq(a, b) == ~IsNaN(a) /\ ~IsNaN(b) /\ a = b

\* C11: calculateIOU returns 0 when both boxes have zero area, and never
\* returns NaN (it never divides zero by zero).
C11_ZeroAreaGivesZero ==
    pc \in {"iou_done", "iou_both"} =>
        /\ ~IsNaN(iouResult)
        /\ (AreaOf(iouBox1) = Num(0) /\ AreaOf(iouBox2) = Num(0)) => iouResult = Num(0)

\* C12: calculateIOU(A, B) equals calculateIOU(B, A) for every pair of boxes,
\* zero-area boxes included.
C12_Symmetric ==
    pc = "iou_both" => NumEq(iouResult, iouSwapped)

----------------------------------------------------------------------------
(* Greedy suppression                                                       *)

\* the original indices nonMaxSuppression returned
Accepted == { nmsSelected[k].originalIndex : k \in 1..Len(nmsSelected) }

\* candidate j is scanned before candidate i: higher confidence, or the same
\* confidence and earlier in the input
ScannedBefore(j, i) ==
    \/ Gt(confidences[j + 1], confidences[i + 1])
    \/ confidences[j + 1] = confidences[i + 1] /\ j < i

Overlaps(j, i) == Gt(calculateIOU(boxes[j + 1], boxes[i + 1]), iouThreshold)

\* the rectangles share no interior point (corners in order)
Disjoint(a, b) ==
    \/ Le(a[3], b[1]) \/ Le(b[3], a[1])
    \/ Le(a[4], b[2]) \/ Le(b[4], a[2])

WellFormed(a) == Gt(a[3], a[1]) /\ Gt(a[4], a[2])

\* C13: scanning in descending confidence, a candidate is in the result
\* exactly when no candidate accepted before it has IOU with it > iouThreshold;
\* so a candidate disjoint from all others survives, and of [0,0,100,100] (0.9)
\* and [5,5,95,95] (0.6) at iouThreshold 0.45 only the 0.9 box survives.
C13_Greedy ==
    Suppressed =>
        /\ Cardinality(Accepted) = Len(nmsSelected)
        /\ \A i \in 0..(Len(boxes) - 1) :
              i \in Accepted <=>
                  \A j \in Accepted : ScannedBefore(j, i) => ~Overlaps(j, i)
        /\ \A i \in 0..(Len(boxes) - 1) :
              (/\ WellFormed(boxes[i + 1])
               /\ \A j \in 0..(Len(boxes) - 1) :
                     j # i => WellFormed(boxes[j + 1]) /\ Disjoint(boxes[i + 1], boxes[j + 1]))
                  => i \in Accepted
        /\ (/\ Len(boxes) = 2
            /\ {boxes[1], boxes[2]} = { <<Num(0), Num(0), Num(100), Num(100)>>,
                                        <<Num(5), Num(5), Num(95), Num(95)>> }
            /\ iouThreshold = DefaultIouThreshold)
               => BoxesOf(nmsSelected) = << <<Num(0), Num(0), Num(100), Num(100)>> >>

\* a suppressed candidate overlaps a lower one that survives all the same
C13_Witness ==
    /\ pc = "selected"
    /\ \E i, k \in 0..(Len(boxes) - 1) :
          /\ i \notin Accepted
          /\ k \in Accepted
          /\ ScannedBefore(i, k)
          /\ Overlaps(i, k)

----------------------------------------------------------------------------
(* nonMaxSuppression and the order of equal confidences: one call, then a   *)
(* call on the same candidates with equal-confidence ones reordered.        *)

TieConfidences == { Frac(1, 2), Frac(3, 4) }

InitTies ==
    /\ pc = "nms"
    /\ \E n \in 0..MaxBoxes :
          /\ boxes \in [1..n -> NmsBoxes]
          /\ confidences \in [1..n -> TieConfidences]
    /\ iouThreshold \in NmsThresholds
    /\ outputTensor = <<>>
    /\ originalWidth = DefaultConfig[1]
    /\ originalHeight = DefaultConfig[2]
    /\ confidenceThreshold = DefaultConfig[3]
    /\ modelInputSize = DefaultConfig[5]
    /\ classIds = <<>>
    /\ detections = <<>>
    /\ error = "none"
    /\ raisedThreshold = DefaultConfig[3]
    /\ raisedDetections = <<>>
    /\ nmsSelected = <<>>
    /\ reselected = <<>>
    /\ CameraIdle
    /\ PickIdle
    /\ IouIdle
    /\ TieIdle

\* the permutations of 1..n other than the identity that map every position
\* to one of the same confidence
TieReorderings(confs) ==
    { p \in [1..Len(confs) -> 1..Len(confs)] :
        /\ \A a, b \in 1..Len(confs) : a # b => p[a] # p[b]
        /\ \E a \in 1..Len(confs) : p[a] # a
        /\ \A a \in 1..Len(confs) : confs[p[a]] = confs[a] }

SelectReordered ==
    /\ pc = "selected"
    /\ \E p \in TieReorderings(confidences) :
          /\ reordering' = p
          /\ reorderedSelected' =
                nonMaxSuppression([k \in 1..Len(boxes) |-> boxes[p[k]]],
                                  [k \in 1..Len(boxes) |-> confidences[p[k]]],
                                  iouThreshold)
    /\ pc' = "reordered"
    /\ UNCHANGED <<pipelineVars, iouVars, pickVars, cameraVars>>

NextTies == Select \/ SelectReordered

SpecTies == InitTies /\ [][NextTies]_vars

SurvivingBoxes(sel) == { sel[k].box : k \in 1..Len(sel) }

\* no two candidates of equal confidence have IOU > iouThreshold
NoTiedOverlap ==
    \A i, j \in 0..(Len(boxes) - 1) :
        (i # j /\ confidences[i + 1] = confidences[j + 1]) => ~Overlaps(i, j)

----------------------------------------------------------------------------
(* HomeScreen.handleImagePick (src/unnamed/part_002).  A call runs to its   *)
(* early return or to await launchImageLibrary in one step, and from the    *)
(* settling of the picker's promise to its end in another.  A state setter  *)
(* is modelled by the value the state has once React has applied it.        *)

MaxPicks == 2

\* Math.floor(Math.random() * 20) + 5
SimulatedCounts == 5..24

PipelineIdle ==
    /\ outputTensor = <<>>
    /\ originalWidth = DefaultConfig[1]
    /\ originalHeight = DefaultConfig[2]
    /\ confidenceThreshold = DefaultConfig[3]
    /\ iouThreshold = DefaultConfig[4]
    /\ modelInputSize = DefaultConfig[5]
    /\ boxes = <<>>
    /\ confidences = <<>>
    /\ classIds = <<>>
    /\ detections = <<>>
    /\ error = "none"
    /\ raisedThreshold = DefaultConfig[3]
    /\ raisedDetections = <<>>
    /\ nmsSelected = <<>>
    /\ reselected = <<>>

InitPick ==
    /\ pc = "home"
    /\ modelLoaded = FALSE
    /\ loading = FALSE
    /\ selectedImage = "null"
    /\ homeCrowdCount = 0
    /\ homeDetections = 0
    /\ homeError = "null"
    /\ picks = 0
    /\ awaiting = 0
    /\ lastPath = "none"
    /\ PipelineIdle
    /\ IouIdle
    /\ TieIdle
    /\ CameraIdle

\* useTensorflowModel delivers the model
LoadModel ==
    /\ pc = "home"
    /\ ~modelLoaded
    /\ modelLoaded' = TRUE
    /\ UNCHANGED <<pc, pipelineVars, iouVars, tieVars, loading, selectedImage,
                   homeCrowdCount, homeDetections, homeError, picks, awaiting,
                   lastPath, cameraVars>>

FinallySkipped == UNCHANGED loading

\* the finally block
Finally == loading' = FALSE

\* setLoading(true) and the resets, then the return of the !modelLoaded branch
HandleImagePickNotLoaded ==
    /\ pc = "home"
    /\ picks < MaxPicks
    /\ ~modelLoaded
    /\ picks' = picks + 1
    /\ selectedImage' = "null"
    /\ homeCrowdCount' = 0
    /\ homeDetections' = 0
    /\ homeError' = "AI Model not loaded. Please wait."
    /\ loading' = FALSE
    /\ lastPath' = "model not loaded"
    /\ UNCHANGED <<pc, pipelineVars, iouVars, tieVars, modelLoaded, awaiting, cameraVars>>

\* setLoading(true) and the resets, then await launchImageLibrary(...)
HandleImagePickAwait ==
    /\ pc = "home"
    /\ picks < MaxPicks
    /\ modelLoaded
    /\ picks' = picks + 1
    /\ loading' = TRUE
    /\ selectedImage' = "null"
    /\ homeCrowdCount' = 0
    /\ homeDetections' = 0
    /\ homeError' = "null"
    /\ awaiting' = awaiting + 1
    /\ UNCHANGED <<pc, pipelineVars, iouVars, tieVars, modelLoaded, lastPath, cameraVars>>

\* a suspended call resumes: what the steps after the await have in common
Resume ==
    /\ pc = "home"
    /\ awaiting > 0
    /\ awaiting' = awaiting - 1
    /\ UNCHANGED <<pc, pipelineVars, iouVars, tieVars, modelLoaded, picks, cameraVars>>

\* result.didCancel
DidCancel ==
    /\ Resume
    /\ lastPath' = "cancelled"
    /\ Finally
    /\ UNCHANGED <<selectedImage, homeCrowdCount, homeDetections, homeError>>

\* result.errorCode
ErrorCode ==
    /\ Resume
    /\ homeError' = "Image picker error"
    /\ lastPath' = "picker error"
    /\ Finally
    /\ UNCHANGED <<selectedImage, homeCrowdCount, homeDetections>>

\* result.assets missing or empty
NoAssets ==
    /\ Resume
    /\ lastPath' = "no assets"
    /\ Finally
    /\ UNCHANGED <<selectedImage, homeCrowdCount, homeDetections, homeError>>

\* result.assets[0]: asset.uri || null, then simulateYOLOv8Inference
Assets ==
    /\ Resume
    /\ selectedImage' \in { "uri", "null" }
    /\ \E numPeople \in SimulatedCounts :
          /\ homeDetections' = numPeople
          /\ homeCrowdCount' = numPeople
    /\ lastPath' = "success"
    /\ Finally
    /\ UNCHANGED homeError

\* the promise rejects: the catch block sets the error, or throws itself on
\* err.message when the rejection carries no object
Thrown ==
    /\ Resume
    /\ homeError' \in { "Failed to process image", homeError }
    /\ lastPath' = "thrown"
    /\ Finally
    /\ UNCHANGED <<selectedImage, homeCrowdCount, homeDetections>>

NextPick ==
    \/ LoadModel
    \/ HandleImagePickNotLoaded
    \/ HandleImagePickAwait
    \/ DidCancel
    \/ ErrorCode
    \/ NoAssets
    \/ Assets
    \/ Thrown

SpecPick == InitPick /\ [][NextPick]_vars

\* calls of handleImagePick that have finished
Finished == picks - awaiting

\* C15: every call of handleImagePick ends with loading = false, on every
\* path, and loading is never true once every call made has finished.
C15_LoadingClearedAtEnd ==
    /\ [][Finished' > Finished => loading' = FALSE]_vars
    /\ [](awaiting = 0 => loading = FALSE)

\* a second call has gone through the picker and the simulated inference,
\* after a first one that found the model not loaded
C15_Witness ==
    /\ picks > 1
    /\ awaiting = 0
    /\ lastPath = "success"
    /\ homeError = "null"
    /\ homeCrowdCount > 0
    /\ loading = FALSE

----------------------------------------------------------------------------
(* CameraScreen (src/src/screens/CameraScreen.tsx): the frame processor     *)
(* parses a frame on the worklet thread and hands the count and the         *)
(* detections to the JS thread in two runOnJS calls; each setter re-renders *)
(* the screen, BoundingBoxOverlay (src/unnamed/part_002) included.          *)

MaxFrames == 2

\* parseYOLOv8Output(outputTensor, frame.width, frame.height, 0.4)
CameraConfidenceThreshold == Frac(2, 5)

OverlayHalfConfidence == Frac(1, 2)

\* detection.confidence > 0.4
OverlayMinConfidence == Frac(2, 5)

\* frame.width, frame.height; device.photoWidth, device.photoHeight
PhotoWidth == Num(1280)
PhotoHeight == Num(640)

\* Dimensions.get('window').width
previewWidth == Num(320)

cameraAspect == Div(PhotoWidth, PhotoHeight)
previewHeight == Div(previewWidth, cameraAspect)
overlayScaleX == Div(previewWidth, PhotoWidth)
overlayScaleY == Div(previewHeight, PhotoHeight)

IsPerson(d) == Label(d.classId) = "person"

\* detections.filter(d => CLASS_LABELS[Math.round(d.classId)] === 'person')
personDetections(tensor) ==
    SelectSeq(parseYOLOv8Output(tensor, PhotoWidth, PhotoHeight,
                                CameraConfidenceThreshold, DefaultIouThreshold,
                                Num(DefaultModelInputSize)).detections,
              IsPerson)

scaledLiveDetections(live) ==
    [k \in 1..Len(live) |->
        [box |-> <<Mul(live[k].box[1], overlayScaleX),
                   Mul(live[k].box[2], overlayScaleY),
                   Mul(live[k].box[3], overlayScaleX),
                   Mul(live[k].box[4], overlayScaleY)>>,
         confidence |-> live[k].confidence,
         classId |-> live[k].classId]]

IsDrawn(d) == IsPerson(d) /\ Gt(d.confidence, OverlayMinConfidence)

\* the detections BoundingBoxOverlay draws a box for, none when it returns null
BoundingBoxOverlay(dets) ==
    IF Len(dets) = 0 THEN <<>> ELSE SelectSeq(dets, IsDrawn)

\* {liveDetections.length > 0 && <BoundingBoxOverlay detections={scaledLiveDetections} .../>}
RenderOverlay(live) ==
    IF Len(live) > 0 THEN BoundingBoxOverlay(scaledLiveDetections(live)) ELSE <<>>

\* the output tensors the model may produce for a frame
FrameLengths == 0..2
FrameTensors ==
    { Flatten(ps) : ps \in UNION { [1..n -> Predictions] : n \in FrameLengths } }

\* what the frame processor computes for each of them
PersonDetectionsOf == [t \in FrameTensors |-> personDetections(t)]

InitCamera ==
    /\ pc = "camera"
    /\ modelRef = FALSE
    /\ crowdCount = 0
    /\ liveDetections = <<>>
    /\ drawnBoxes = <<>>
    /\ jsQueue = <<>>
    /\ frames = 0
    /\ countFrame = 0
    /\ liveFrame = 0
    /\ PipelineIdle
    /\ IouIdle
    /\ TieIdle
    /\ PickIdle

otherVars == <<originalWidth, originalHeight, confidenceThreshold, iouThreshold,
               modelInputSize, boxes, confidences, classIds, detections, error,
               raisedThreshold, raisedDetections, nmsSelected, reselected,
               iouVars, tieVars, pickVars>>

\* useEffect: modelRef.current = model
SetModelRef ==
    /\ pc = "camera"
    /\ ~modelRef
    /\ modelRef' = TRUE
    /\ UNCHANGED <<pc, outputTensor, otherVars, crowdCount, liveDetections,
                   drawnBoxes, jsQueue, frames, countFrame, liveFrame>>

\* if (!currentModel) return
FrameProcessorNoModel ==
    /\ pc = "camera"
    /\ frames < MaxFrames
    /\ ~modelRef
    /\ frames' = frames + 1
    /\ UNCHANGED <<pc, outputTensor, otherVars, modelRef, crowdCount,
                   liveDetections, drawnBoxes, jsQueue, countFrame, liveFrame>>

FrameProcessor ==
    /\ pc = "camera"
    /\ frames < MaxFrames
    /\ modelRef
    /\ \E t \in FrameTensors :
          /\ outputTensor' = t
          /\ jsQueue' = jsQueue \o
                <<[call |-> "setCrowdCount", arg |-> Len(PersonDetectionsOf[t]),
                   frame |-> frames + 1],
                  [call |-> "setLiveDetections", arg |-> PersonDetectionsOf[t],
                   frame |-> frames + 1]>>
    /\ frames' = frames + 1
    /\ UNCHANGED <<pc, otherVars, modelRef, crowdCount, liveDetections,
                   drawnBoxes, countFrame, liveFrame>>

\* the JS thread runs setCrowdCount(personDetections.length)
SetCrowdCount ==
    /\ pc = "camera"
    /\ jsQueue # <<>>
    /\ Head(jsQueue).call = "setCrowdCount"
    /\ crowdCount' = Head(jsQueue).arg
    /\ countFrame' = Head(jsQueue).frame
    /\ jsQueue' = Tail(jsQueue)
    /\ UNCHANGED <<pc, outputTensor, otherVars, modelRef, liveDetections,
                   drawnBoxes, frames, liveFrame>>

\* the JS thread runs setLiveDetections(personDetections); the render draws them
SetLiveDetections ==
    /\ pc = "camera"
    /\ jsQueue # <<>>
    /\ Head(jsQueue).call = "setLiveDetections"
    /\ liveDetections' = Head(jsQueue).arg
    /\ drawnBoxes' = RenderOverlay(Head(jsQueue).arg)
    /\ liveFrame' = Head(jsQueue).frame
    /\ jsQueue' = Tail(jsQueue)
    /\ UNCHANGED <<pc, outputTensor, otherVars, modelRef, crowdCount, frames,
                   countFrame>>

NextCamera ==
    \/ SetModelRef
    \/ FrameProcessorNoModel
    \/ FrameProcessor
    \/ SetCrowdCount
    \/ SetLiveDetections

SpecCamera == InitCamera /\ [][NextCamera]_vars

\* C16: when crowdCount and liveDetections come from the same frame, the
\* count equals the number of boxes BoundingBoxOverlay draws.
C16_CountEqualsDrawn ==
    (pc = "camera" /\ countFrame = liveFrame) => crowdCount = Len(drawnBoxes)

\* the count and the boxes of a second frame are on screen, and the frame held
\* a prediction that was not counted
C16_Witness ==
    /\ pc = "camera"
    /\ countFrame = liveFrame
    /\ countFrame = frames
    /\ frames > 1
    /\ crowdCount > 0
    /\ Len(drawnBoxes) = crowdCount
    /\ Len(outputTensor) > crowdCount * numValuesPerPrediction

====
